---- MODULE Spec2Model ----
(***************************************************************************)
(* BetPoisson bot (src/bot.py): a Flask service that keeps a ledger of     *)
(* betting slips in one JSON file, relays notifications to Telegram and    *)
(* sends a monthly report.                                                 *)
(*                                                                         *)
(* Python dicts are functions over a set of string keys; a missing key is  *)
(* a key outside the DOMAIN.  Python strings that the code only tests with *)
(* startswith are sequences of tokens (<<2024, 3, 15>> is "2024-03-15").   *)
(* Money is counted in whole euros.                                        *)
(***************************************************************************)
EXTENDS Integers, Sequences, FiniteSets, TLC

VARIABLES
    fileExists,   \* DATA_FILE.exists()
    file,         \* the JSON document in DATA_FILE
    req,          \* the HTTP request handled last
    resp,         \* its response, with what the handler did on the way
    report,       \* the monthly report produced last
    pc,           \* SpecRace: position of each worker inside receive_bet
    local,        \* SpecRace: each worker's `data`
    saves,        \* SpecRace: workers in the order of their save_data
    now,          \* SpecSched: wall clock, in ticks since StartOfTime
    nextRun,      \* SpecSched: job.next_run of check_end_of_month
    spc,          \* SpecSched: position of the scheduler thread
    lastCheck,    \* SpecSched: `now` of the latest check_end_of_month followed, -1 before the first
    triggered     \* SpecSched: the scheduler's calls of send_monthly_report, oldest first

vars == <<fileExists, file, req, resp, report, pc, local, saves,
          now, nextRun, spc, lastCheck, triggered>>

httpVars  == <<fileExists, file, req, resp, report>>
raceVars  == <<pc, local, saves>>
schedVars == <<now, nextRun, spc, lastCheck, triggered>>

-----------------------------------------------------------------------------
(* Bounds *)

MaxBets == 2          \* longest bet list the model lets a request build
MaxLag  == 1          \* longest delay, in ticks, the model adds to one step of the scheduler
MaxDays == 32         \* days of scheduler run time the model follows

-----------------------------------------------------------------------------
(* Python dict and str *)

EmptyDict == [k \in {} |-> 0]

Has(d, k) == k \in DOMAIN d

Get(d, k, dflt) == IF k \in DOMAIN d THEN d[k] ELSE dflt

Update(d, e) ==
    [k \in DOMAIN d \cup DOMAIN e |-> IF k \in DOMAIN e THEN e[k] ELSE d[k]]

Truthy(d) == DOMAIN d # {}

\* The values an id takes: None, the int 1, the strings "1", "2", "None".
None == "None"

PyStr(v) ==
    CASE v = "None"     -> "None"
      [] v = "int:1"    -> "1"
      [] v = "str:1"    -> "1"
      [] v = "str:2"    -> "2"
      [] v = "str:None" -> "None"

\* str(b.get("id"))
IdStr(b) == PyStr(Get(b, "id", None))

\* The positions of the bets whose id reads like that of `bet`.
EntriesFor(bets, bet) == {i \in 1..Len(bets) : IdStr(bets[i]) = IdStr(bet)}

\* e carries every field of `later`, and every field of `earlier` that
\* `later` does not carry.
HoldsMerge(e, earlier, later) ==
    /\ \A k \in DOMAIN later : Has(e, k) /\ e[k] = later[k]
    /\ \A k \in DOMAIN earlier \ DOMAIN later : Has(e, k) /\ e[k] = earlier[k]

StartsWith(s, prefix) ==
    /\ Len(s) >= Len(prefix)
    /\ SubSeq(s, 1, Len(prefix)) = prefix

-----------------------------------------------------------------------------
(* Configuration and storage *)

SECRET_KEY == "betpoisson2025"

DefaultData == [bets |-> <<>>, bankroll |-> 0, initialBankroll |-> 0]

LoadData(exists, f) == IF exists THEN f ELSE DefaultData

\* A writer that keeps the stored bets the new document does not mention.
SaveDataKeepingOthers(cur, data) ==
    IF Has(cur, "bets") /\ Has(data, "bets")
    THEN LET Unmentioned(b) == EntriesFor(data.bets, b) = {}
         IN  [data EXCEPT !.bets = @ \o SelectSeq(cur.bets, Unmentioned)]
    ELSE data

\* open(DATA_FILE, "w"): the document replaces whatever `cur` the file held.
SaveData(cur, data) == data

\* A check that only asks for the header to be present.
AuthorizedIfPresent(secret) == secret # ""

Authorized(secret) == secret = SECRET_KEY

-----------------------------------------------------------------------------
(* Message formatting *)

FmtBetMessage(bet, data) ==
    LET book_odd == Get(bet, "bookOdds", 0)
        stake    == Get(bet, "stake", 0)
        pwin     == stake * book_odd
    IN  <<"new", pwin, pwin - stake, Get(data, "bankroll", 0)>>

FmtResultMessage(bet, data) ==
    LET result   == Get(bet, "result", "pending")
        stake    == Get(bet, "stake", 0)
        book_odd == Get(bet, "bookOdds", 1)
        bankroll == Get(data, "bankroll", 0)
    IN  IF result = "won" THEN <<"result", "won", stake * book_odd - stake, bankroll>>
        ELSE IF result = "lost" THEN <<"result", "lost", stake, bankroll>>
        ELSE IF result = "void" THEN <<"result", "void", stake, bankroll>>
        ELSE <<>>

-----------------------------------------------------------------------------
(* /api/bet *)

\* next((b for b in data["bets"] if str(b.get("id")) == str(bet.get("id"))), None):
\* the position of the first match, 0 for None.
FindExisting(bets, bet) ==
    LET hits == {i \in 1..Len(bets) : IdStr(bets[i]) = IdStr(bet)}
    IN  IF hits = {} THEN 0 ELSE CHOOSE i \in hits : \A j \in hits : i <= j

UpsertNew(data, bet) ==
    LET i == FindExisting(data.bets, bet)
    IN  IF i # 0 /\ Truthy(data.bets[i])
        THEN [data EXCEPT !.bets[i] = Update(@, bet)]
        ELSE [data EXCEPT !.bets = <<bet>> \o @]

\* A `result` branch that inserts like the `new` branch.
ApplyResultUpserting(data, bet) == UpsertNew(data, bet)

ApplyResult(data, bet) ==
    LET i == FindExisting(data.bets, bet)
    IN  IF i # 0 /\ Truthy(data.bets[i])
        THEN [data EXCEPT !.bets[i] = Update(@, bet)]
        ELSE data

SetBankroll(data, payload) ==
    IF Has(payload, "bankroll")
    THEN Update(data, [bankroll |-> payload.bankroll])
    ELSE data

Action(payload) == Get(payload, "action", "new")
BetOf(payload)  == Get(payload, "bet", EmptyDict)

\* What the handler has in `data` when it reaches save_data.
Modified(data, payload) ==
    IF Action(payload) = "new"
    THEN SetBankroll(UpsertNew(data, BetOf(payload)), payload)
    ELSE SetBankroll(ApplyResult(data, BetOf(payload)), payload)

\* The text the handler hands to bot.send_message (<<>> : nothing to send).
Message(data, payload) ==
    IF Action(payload) = "new"
    THEN FmtBetMessage(BetOf(payload), data)
    ELSE FmtResultMessage(BetOf(payload), data)

\* The handler from save_data to its return: status, and what was sent.
Notify(msg, sendOk) ==
    IF msg = <<>> THEN [status |-> 200, sent |-> <<>>, sendFailed |-> FALSE]
    ELSE IF sendOk THEN [status |-> 200, sent |-> <<msg>>, sendFailed |-> FALSE]
    ELSE [status |-> 500, sent |-> <<>>, sendFailed |-> TRUE]

NoEffect(status) ==
    [status |-> status, saved |-> FALSE, sent |-> <<>>, sendFailed |-> FALSE]

receive_bet(secret, payload, sendOk, exists, f) ==
    IF ~Authorized(secret) THEN NoEffect(401)
    ELSE IF ~Truthy(payload) THEN NoEffect(400)
    ELSE LET data == LoadData(exists, f) IN
         IF Action(payload) \notin {"new", "result"} THEN NoEffect(400)
         ELSE IF ~Has(data, "bets") THEN NoEffect(500)     \* KeyError: 'bets'
         ELSE LET d == Modified(data, payload)
                  n == Notify(Message(d, payload), sendOk)
              IN  [status |-> n.status, saved |-> TRUE, data |-> d,
                   sent |-> n.sent, sendFailed |-> n.sendFailed]

-----------------------------------------------------------------------------
(* Requests *)

Secrets == {SECRET_KEY, "wrong"}

BetA     == [id |-> "int:1", stake |-> 10, bookOdds |-> 2]
BetARes  == [id |-> "str:1", result |-> "won"]
BetB     == [id |-> "str:2", stake |-> 5, result |-> "pending"]
BetNoId  == [stake |-> 10, result |-> "lost"]
BetNone  == [id |-> "str:None", notes |-> "n"]

RequestBets == {EmptyDict, BetA, BetARes, BetB, BetNoId, BetNone}

BetPayloads ==
    {EmptyDict, [action |-> "delete", bet |-> BetA], [bet |-> BetB],
     [action |-> "new"], [action |-> "result", bankroll |-> 50]}
    \cup {[action |-> a, bet |-> b] : a \in {"new", "result"}, b \in RequestBets}
    \cup {[action |-> "new", bet |-> BetA, bankroll |-> 50]}

NoRequest  == [ep |-> "none", secret |-> "", payload |-> EmptyDict]
NoResponse == NoEffect(0)
NoReport   == [path |-> "none"]

ReceiveBet(secret, payload, sendOk) ==
    LET out == receive_bet(secret, payload, sendOk, fileExists, file) IN
    /\ out.saved => Len(out.data.bets) <= MaxBets
    /\ req' = [ep |-> "bet", secret |-> secret, payload |-> payload]
    /\ resp' = [status |-> out.status, saved |-> out.saved,
                sent |-> out.sent, sendFailed |-> out.sendFailed]
    /\ IF out.saved
       THEN fileExists' = TRUE /\ file' = SaveData(file, out.data)
       ELSE UNCHANGED <<fileExists, file>>
    /\ report' = NoReport
    /\ UNCHANGED <<raceVars, schedVars>>

-----------------------------------------------------------------------------
(* SpecBet: a service that only ever receives /api/bet requests *)

InitIdle ==
    /\ req = NoRequest
    /\ resp = NoResponse
    /\ report = NoReport
    /\ pc = <<"idle", "idle">>
    /\ local = <<EmptyDict, EmptyDict>>
    /\ saves = <<>>
    /\ now = 0
    /\ nextRun = 0
    /\ spc = "off"
    /\ lastCheck = -1
    /\ triggered = <<>>

InitBet ==
    /\ fileExists = FALSE
    /\ file = EmptyDict
    /\ InitIdle

NextBet ==
    \E secret \in Secrets, payload \in BetPayloads, sendOk \in BOOLEAN :
        ReceiveBet(secret, payload, sendOk)

SpecBet == InitBet /\ [][NextBet]_vars

-----------------------------------------------------------------------------
(* Calendar: the clock counts ticks from StartOfTime, 2024-03-30 00:00 UTC *)

TicksPerMinute == 2

StartYear  == 2024
StartMonth == 3
StartDay   == 30

TicksPerHour == 60 * TicksPerMinute
TicksPerDay  == 24 * TicksPerHour

\* calendar.monthrange(year, month)[1]
MonthRange(year, month) ==
    IF month = 2
    THEN (IF year % 4 = 0 /\ (year % 100 # 0 \/ year % 400 = 0) THEN 29 ELSE 28)
    ELSE IF month \in {4, 6, 9, 11} THEN 30 ELSE 31

RECURSIVE AddDays(_, _)
AddDays(date, n) ==
    IF n = 0 THEN date
    ELSE IF date.day < MonthRange(date.year, date.month)
         THEN AddDays([date EXCEPT !.day = @ + 1], n - 1)
    ELSE IF date.month < 12
         THEN AddDays([date EXCEPT !.month = @ + 1, !.day = 1], n - 1)
    ELSE AddDays([year |-> date.year + 1, month |-> 1, day |-> 1], n - 1)

\* datetime.now(timezone.utc) when the clock reads t
DateTime(t) ==
    LET d == AddDays([year |-> StartYear, month |-> StartMonth, day |-> StartDay],
                     t \div TicksPerDay)
    IN  [year |-> d.year, month |-> d.month, day |-> d.day,
         hour |-> (t % TicksPerDay) \div TicksPerHour,
         minute |-> (t % TicksPerHour) \div TicksPerMinute]

-----------------------------------------------------------------------------
(* Monthly report *)

\* f"{year}-{month:02d}"
MonthStr(year, month) == <<year, month>>

InMonthByDate(b, month_str) ==
    StartsWith(Get(Get(b, "match", EmptyDict), "date", <<>>), month_str)

InMonthByCreation(b, month_str) ==
    StartsWith(Get(b, "createdAt", <<>>), month_str)

ResultIs(b, r) == Has(b, "result") /\ b.result = r

Stake(b)  == Get(b, "stake", 0)
Payout(b) == Get(b, "stake", 0) * Get(b, "bookOdds", 1)

\* sum(b.get("stake", 0) for b in s)
RECURSIVE SumStakes(_)
SumStakes(s) == IF s = <<>> THEN 0 ELSE Stake(Head(s)) + SumStakes(Tail(s))

\* sum(b.get("stake", 0) * b.get("bookOdds", 1) for b in s)
RECURSIVE SumPayouts(_)
SumPayouts(s) == IF s = <<>> THEN 0 ELSE Payout(Head(s)) + SumPayouts(Tail(s))

\* profit / staked * 100, in tenths of a percent
Roi(profit, staked) == IF staked > 0 THEN (profit * 1000) \div staked ELSE 0

\* generate_monthly_pdf: the month's bets
PdfBets(year, month, data) ==
    LET Sel(b) == \/ InMonthByDate(b, MonthStr(year, month))
                  \/ InMonthByCreation(b, MonthStr(year, month))
    IN  SelectSeq(Get(data, "bets", <<>>), Sel)

\* generate_monthly_pdf: the figures laid out in the document
PdfStats(year, month, data) ==
    LET bets == PdfBets(year, month, data)
        IsWon(b)  == ResultIs(b, "won")
        IsLost(b) == ResultIs(b, "lost")
        IsPend(b) == ResultIs(b, "pending")
        IsVoid(b) == ResultIs(b, "void")
        won  == SelectSeq(bets, IsWon)
        lost == SelectSeq(bets, IsLost)
        pend == SelectSeq(bets, IsPend)
        void == SelectSeq(bets, IsVoid)
        total_staked == SumStakes(bets)
        total_won    == SumPayouts(won)
        total_void   == SumStakes(void)
        profit       == total_won - total_staked + total_void
    IN  [total |-> Len(bets), won |-> Len(won), lost |-> Len(lost),
         pend |-> Len(pend), void |-> Len(void),
         staked |-> total_staked, profit |-> profit,
         roi |-> Roi(profit, total_staked),
         win_rate |-> IF Len(won) + Len(lost) > 0
                      THEN (Len(won) * 100) \div (Len(won) + Len(lost)) ELSE 0]

\* send_monthly_report: the bets behind the document's caption
CaptionBets(year, month, data) ==
    LET Sel(b) == \/ InMonthByDate(b, MonthStr(year, month))
                  \/ InMonthByCreation(b, MonthStr(year, month))
    IN  SelectSeq(Get(data, "bets", <<>>), Sel)

\* send_monthly_report: the bets behind the text sent when the PDF fails
FallbackBets(year, month, data) ==
    LET Sel(b) == InMonthByDate(b, MonthStr(year, month))
    IN  SelectSeq(Get(data, "bets", <<>>), Sel)

\* The figures of both messages: count, won, lost, staked, P/L, ROI, bankroll
MessageStats(bets, data) ==
    LET IsWon(b)  == ResultIs(b, "won")
        IsLost(b) == ResultIs(b, "lost")
        staked    == SumStakes(bets)
        total_won == SumPayouts(SelectSeq(bets, IsWon))
        profit    == total_won - staked
    IN  [total |-> Len(bets), won |-> Len(SelectSeq(bets, IsWon)),
         lost |-> Len(SelectSeq(bets, IsLost)), staked |-> staked,
         profit |-> profit, roi |-> Roi(profit, staked),
         bankroll |-> Get(data, "bankroll", 0)]

CaptionStats(year, month, data) == MessageStats(CaptionBets(year, month, data), data)

FallbackStats(year, month, data) == MessageStats(FallbackBets(year, month, data), data)

\* send_monthly_report(year, month): pdfOk is whether generate_monthly_pdf
\* returned, sendOk whether the Telegram call returned.
send_monthly_report(year, month, data, pdfOk, sendOk) ==
    IF pdfOk
    THEN [path |-> "pdf", year |-> year, month |-> month,
          pdf |-> PdfStats(year, month, data),
          pdfBets |-> PdfBets(year, month, data),
          msg |-> CaptionStats(year, month, data),
          msgBets |-> CaptionBets(year, month, data),
          delivered |-> sendOk, raised |-> ~sendOk]
    ELSE [path |-> "text", year |-> year, month |-> month,
          pdf |-> EmptyDict,
          pdfBets |-> <<>>,
          msg |-> FallbackStats(year, month, data),
          msgBets |-> FallbackBets(year, month, data),
          delivered |-> sendOk, raised |-> FALSE]

-----------------------------------------------------------------------------
(* /api/sync and /api/report *)

RWon     == [id |-> "str:1", match |-> [date |-> <<2024, 3, 15>>],
             stake |-> 10, bookOdds |-> 2, result |-> "won"]
RCreated == [id |-> "str:2", createdAt |-> <<2024, 3, 1, 0>>,
             stake |-> 10, bookOdds |-> 3, result |-> "lost"]
RVoid    == [match |-> [date |-> <<2024, 3, 20>>], stake |-> 10, result |-> "void"]
RUnset   == [match |-> [date |-> <<2024, 4, 2>>], createdAt |-> <<2024, 3, 31, 23>>,
             stake |-> 5]

LedgerBets == {RWon, RCreated, RVoid, RUnset}

\* The bet lists of at most n different bets of S
RECURSIVE SeqsUpTo(_, _)
SeqsUpTo(S, n) ==
    IF n = 0 THEN {<<>>}
    ELSE LET shorter == SeqsUpTo(S, n - 1)
             Lacks(t, x) == \A i \in 1..Len(t) : t[i] # x
             pairs == {p \in S \X {u \in shorter : Len(u) = n - 1} : Lacks(p[2], p[1])}
         IN  shorter \cup {<<p[1]>> \o p[2] : p \in pairs}

SyncPayloads ==
    {EmptyDict, [bankroll |-> 5]}
    \cup {[bets |-> s, bankroll |-> 100] : s \in SeqsUpTo(LedgerBets, MaxBets)}

ReportPayloads ==
    {EmptyDict, [year |-> 2024, month |-> 3], [month |-> 4]}

sync_history(secret, payload) ==
    IF ~Authorized(secret) THEN NoEffect(401)
    ELSE IF ~Truthy(payload) THEN NoEffect(400)
    ELSE [status |-> 200, saved |-> TRUE, data |-> payload,
          sent |-> <<>>, sendFailed |-> FALSE]

SyncHistory(secret, payload) ==
    LET out == sync_history(secret, payload) IN
    /\ req' = [ep |-> "sync", secret |-> secret, payload |-> payload]
    /\ resp' = [status |-> out.status, saved |-> out.saved,
                sent |-> out.sent, sendFailed |-> out.sendFailed]
    /\ IF out.saved
       THEN fileExists' = TRUE /\ file' = SaveData(file, out.data)
       ELSE UNCHANGED <<fileExists, file>>
    /\ report' = NoReport
    /\ UNCHANGED <<raceVars, schedVars>>

manual_report(secret, payload, pdfOk, sendOk, exists, f, t) ==
    IF ~Authorized(secret) THEN [status |-> 401, report |-> NoReport]
    ELSE LET year  == Get(payload, "year", DateTime(t).year)
             month == Get(payload, "month", DateTime(t).month)
             r == send_monthly_report(year, month, LoadData(exists, f), pdfOk, sendOk)
         IN  [status |-> IF r.raised THEN 500 ELSE 200, report |-> r]

ManualReport(secret, payload, pdfOk, sendOk) ==
    LET out == manual_report(secret, payload, pdfOk, sendOk, fileExists, file, now) IN
    /\ req' = [ep |-> "report", secret |-> secret, payload |-> payload]
    /\ resp' = [status |-> out.status, saved |-> FALSE,
                sent |-> IF out.report.path # "none" /\ out.report.delivered
                         THEN <<out.report.msg>> ELSE <<>>,
                sendFailed |-> out.report.path # "none" /\ ~out.report.delivered]
    /\ report' = out.report
    /\ UNCHANGED <<fileExists, file, raceVars, schedVars>>

-----------------------------------------------------------------------------
(* Spec: the HTTP service, one request at a time *)

ServicePayloads ==
    {EmptyDict, [action |-> "delete", bet |-> BetA],
     [action |-> "new", bet |-> BetA, bankroll |-> 50],
     [action |-> "new", bet |-> BetB],
     [action |-> "result", bet |-> BetARes]}

Init == InitBet

Next ==
    \/ \E secret \in Secrets, payload \in ServicePayloads, sendOk \in BOOLEAN :
           ReceiveBet(secret, payload, sendOk)
    \/ \E secret \in Secrets, payload \in SyncPayloads :
           SyncHistory(secret, payload)
    \/ \E secret \in Secrets, payload \in ReportPayloads, pdfOk \in BOOLEAN,
          sendOk \in BOOLEAN :
           ManualReport(secret, payload, pdfOk, sendOk)

Spec == Init /\ [][Next]_vars

-----------------------------------------------------------------------------
(* SpecSched: the scheduler thread, run_scheduler *)

EveryMinutes == 2      \* schedule.every(2).minutes
SleepSeconds == 60     \* time.sleep(60)
WindowHour   == 20     \* now.hour == 20
WindowMinute == 2      \* now.minute < 2

\* The period of a job scheduled with schedule.every().minute
PeriodOfOneMinute == TicksPerMinute

Period     == EveryMinutes * TicksPerMinute
SleepTicks == (SleepSeconds * TicksPerMinute) \div 60

\* The model follows the thread from 19:58 to 20:06 of each day; the rest
\* of the day passes in one step.
WatchFrom  == 19 * TicksPerHour + 58 * TicksPerMinute
WatchUntil == 20 * TicksPerHour + 6 * TicksPerMinute

TimeOfDay(t) == t % TicksPerDay
DayOf(t)     == t \div TicksPerDay

\* check_end_of_month's condition on now = datetime.now(timezone.utc)
EndOfMonth(t) ==
    LET n == DateTime(t)
    IN  /\ n.day = MonthRange(n.year, n.month)
        /\ n.hour = WindowHour
        /\ n.minute < WindowMinute

\* schedule.run_pending() of one loop turn: the job runs when it is due,
\* reads the clock, sends the report at the end of the month, and is
\* scheduled again EveryMinutes after it returned.
RunPending(lag, pdfOk, sendOk) ==
    /\ spc = "pending"
    /\ IF now >= nextRun
       THEN /\ lastCheck' = now
            /\ IF EndOfMonth(now)
               THEN LET n == DateTime(now)
                        r == send_monthly_report(n.year, n.month,
                                                 LoadData(fileExists, file), pdfOk, sendOk)
                    IN  /\ report' = r
                        /\ triggered' = Append(triggered,
                                               [year |-> n.year, month |-> n.month, at |-> now])
                        /\ IF r.raised
                           THEN spc' = "dead" /\ UNCHANGED <<now, nextRun>>
                           ELSE /\ spc' = "sleep"
                                /\ now' = now + lag
                                /\ nextRun' = now' + Period
               ELSE /\ spc' = "sleep"
                    /\ now' = now + lag
                    /\ nextRun' = now' + Period
                    /\ UNCHANGED <<report, triggered>>
       ELSE /\ spc' = "sleep"
            /\ UNCHANGED <<now, nextRun, lastCheck, report, triggered>>
    /\ UNCHANGED <<fileExists, file, req, resp, raceVars>>

\* time.sleep(60)
Sleep(lag) ==
    /\ spc = "sleep"
    /\ TimeOfDay(now) < WatchUntil
    /\ now' = now + SleepTicks + lag
    /\ spc' = "pending"
    /\ UNCHANGED <<nextRun, lastCheck, triggered, httpVars, raceVars>>

\* The loop turns from WatchUntil to 19:58 of the next day: every check in
\* between finds hour # 20, and the thread arrives with the job due at
\* most Period - SleepTicks after the time it wakes up.
SleepThroughNight(offset) ==
    /\ spc = "sleep"
    /\ TimeOfDay(now) >= WatchUntil
    /\ DayOf(now) + 1 < MaxDays
    /\ now' = (DayOf(now) + 1) * TicksPerDay + WatchFrom + offset
    /\ \E due \in 0..(Period - SleepTicks) : nextRun' = now' + due
    /\ spc' = "pending"
    /\ UNCHANGED <<lastCheck, triggered, httpVars, raceVars>>

InitSched ==
    /\ fileExists = FALSE
    /\ file = EmptyDict
    /\ req = NoRequest
    /\ resp = NoResponse
    /\ report = NoReport
    /\ pc = <<"idle", "idle">>
    /\ local = <<EmptyDict, EmptyDict>>
    /\ saves = <<>>
    /\ now \in {WatchFrom + d : d \in 0..(Period - 1)}
    /\ nextRun = now + Period
    /\ spc = "pending"
    /\ lastCheck = -1
    /\ triggered = <<>>

NextSched ==
    \/ \E lag \in 0..MaxLag, pdfOk \in BOOLEAN, sendOk \in BOOLEAN :
           RunPending(lag, pdfOk, sendOk)
    \/ \E lag \in 0..MaxLag : Sleep(lag)
    \/ \E offset \in 0..(Period - 1) : SleepThroughNight(offset)

SpecSched == InitSched /\ [][NextSched]_vars

\* C6: the scheduler calls send_monthly_report at most once for a calendar
\* month: no two of its calls are for the same year and month.
C6_OncePerMonth ==
    \A i, j \in DOMAIN triggered :
        (triggered[i].year = triggered[j].year /\ triggered[i].month = triggered[j].month)
            => i = j

\* After a month's report was triggered, check_end_of_month ran again in the
\* same month and the month still has one report.
C6_Witness ==
    \E i \in DOMAIN triggered :
        /\ lastCheck > triggered[i].at
        /\ DateTime(lastCheck).year = triggered[i].year
        /\ DateTime(lastCheck).month = triggered[i].month
        /\ spc = "sleep"

-----------------------------------------------------------------------------
(* SpecRace: two /api/bet requests handled by two threads of the server *)

Workers == {1, 2}

RacePayloads ==
    {[action |-> "new", bet |-> BetA, bankroll |-> 50],
     [action |-> "new", bet |-> BetB],
     [action |-> "new", bet |-> BetNoId],
     [action |-> "result", bet |-> BetARes]}

\* receive_bet up to data = load_data(), for a request that passes the
\* checks of the secret and of the payload.
RaceLoad(w, secret, payload) ==
    /\ pc[w] = "idle"
    /\ Authorized(secret)
    /\ Truthy(payload)
    /\ Action(payload) \in {"new", "result"}
    /\ local' = [local EXCEPT ![w] = [payload |-> payload,
                                      loaded |-> LoadData(fileExists, file),
                                      data |-> LoadData(fileExists, file),
                                      savesSeen |-> Len(saves),
                                      status |-> 0]]
    /\ pc' = [pc EXCEPT ![w] = "loaded"]
    /\ UNCHANGED <<saves, httpVars, schedVars>>

\* receive_bet from the upsert to save_data(data)
RaceSave(w) ==
    /\ pc[w] = "loaded"
    /\ Has(local[w].data, "bets")
    /\ LET d == Modified(local[w].data, local[w].payload)
       IN  /\ file' = SaveData(file, d)
           /\ fileExists' = TRUE
           /\ local' = [local EXCEPT ![w].data = d]
    /\ saves' = Append(saves, w)
    /\ pc' = [pc EXCEPT ![w] = "saved"]
    /\ UNCHANGED <<req, resp, report, schedVars>>

\* receive_bet from the message to the response
RaceReply(w, sendOk) ==
    /\ pc[w] = "saved"
    /\ LET n == Notify(Message(local[w].data, local[w].payload), sendOk)
       IN  local' = [local EXCEPT ![w].status = n.status]
    /\ pc' = [pc EXCEPT ![w] = "done"]
    /\ UNCHANGED <<saves, httpVars, schedVars>>

InitRace ==
    /\ fileExists \in BOOLEAN
    /\ file = IF fileExists THEN [bets |-> <<BetNone>>, bankroll |-> 100] ELSE EmptyDict
    /\ InitIdle

NextRace ==
    \/ \E w \in Workers, secret \in Secrets, payload \in RacePayloads :
           RaceLoad(w, secret, payload)
    \/ \E w \in Workers : RaceSave(w)
    \/ \E w \in Workers, sendOk \in BOOLEAN : RaceReply(w, sendOk)

SpecRace == InitRace /\ [][NextRace]_vars

\* Both workers handled a `new` request, for different ids, and each loaded
\* the ledger before either had saved.
BothLoadedFirst ==
    /\ pc = <<"done", "done">>
    /\ \A w \in Workers :
          /\ Action(local[w].payload) = "new"
          /\ local[w].savesSeen = 0
    /\ IdStr(BetOf(local[1].payload)) # IdStr(BetOf(local[2].payload))

\* C5: when two `new` requests for different ids both load the ledger
\* before either saves, the stored ledger is the document of the one that
\* saved last: it holds that worker's bet and not the other's.
C5_LastWriterWins ==
    BothLoadedFirst =>
        LET late  == saves[2]
            early == saves[1]
            mine  == BetOf(local[late].payload)
            other == BetOf(local[early].payload)
        IN  /\ file = local[late].data
            /\ \E i \in EntriesFor(file.bets, mine) : HoldsMerge(file.bets[i], EmptyDict, mine)
            /\ Len(file.bets) <= Len(local[late].loaded.bets) + 1
            /\ {file.bets[i] : i \in EntriesFor(file.bets, other)}
                   = {local[late].loaded.bets[i] :
                          i \in EntriesFor(local[late].loaded.bets, other)}

\* The race happened, both callers were answered 200, and the bet of the
\* worker that saved first, which the ledger did not hold, is not stored.
C5_Witness ==
    /\ BothLoadedFirst
    /\ \A w \in Workers : local[w].status = 200
    /\ EntriesFor(local[saves[1]].loaded.bets, BetOf(local[saves[1]].payload)) = {}
    /\ EntriesFor(file.bets, BetOf(local[saves[1]].payload)) = {}
    /\ EntriesFor(local[saves[1]].data.bets, BetOf(local[saves[1]].payload)) # {}

-----------------------------------------------------------------------------
(* Properties of /api/bet, checked under SpecBet *)

Ledger == LoadData(fileExists, file)

\* The request handled last was a /api/bet request that reached save_data.
SavedBet(r, s, action) ==
    /\ r.ep = "bet"
    /\ s.saved
    /\ Action(r.payload) = action

\* C1: two `new` submissions in a row with the same bet id (compared as
\* strings), both answered 200, leave exactly one ledger entry for that id,
\* and the entry holds the merge of the two submissions.
C1_NewTwiceOneEntry ==
    [][ ( /\ SavedBet(req, resp, "new") /\ resp.status = 200
          /\ SavedBet(req', resp', "new") /\ resp'.status = 200
          /\ IdStr(BetOf(req.payload)) = IdStr(BetOf(req'.payload)) )
        => LET hits == EntriesFor(file'.bets, BetOf(req'.payload))
           IN  /\ Cardinality(hits) = 1
               /\ \A i \in hits :
                      HoldsMerge(file'.bets[i], BetOf(req.payload), BetOf(req'.payload))
      ]_vars

\* C2: when the ledger write of a `new` or `result` request succeeded and
\* the Telegram send then failed, the caller still gets success and the
\* written ledger stays on disk.
C2_SendFailureInvisible ==
    [][ ( /\ req'.ep = "bet"
          /\ resp'.saved
          /\ resp'.sendFailed )
        => /\ resp'.status = 200
           /\ fileExists'
           /\ file' = Modified(Ledger, req'.payload)
      ]_vars

-----------------------------------------------------------------------------
(* Properties of the HTTP service, checked under Spec *)

\* C3: a request to /api/bet, /api/sync or /api/report whose X-Secret is not
\* the configured secret is answered 401, leaves the ledger file as it was
\* and sends neither a notification nor a report.
C3_UnauthorizedNoEffect ==
    [][ ( /\ req'.ep \in {"bet", "sync", "report"}
          /\ req'.secret # SECRET_KEY )
        => /\ resp'.status = 401
           /\ fileExists' = fileExists
           /\ file' = file
           /\ resp'.sent = <<>>
           /\ report' = NoReport
      ]_vars

\* A /api/sync request with a wrong secret and a ledger that differs from
\* the stored one was answered 401.
C3_Witness ==
    /\ req.ep = "sync"
    /\ req.secret # SECRET_KEY
    /\ Truthy(req.payload)
    /\ resp.status = 401
    /\ fileExists
    /\ file # req.payload
    /\ Has(file, "bets") /\ Len(file.bets) > 0

\* C10: the stored ledger always has a `bets` sequence, so an authenticated
\* non-empty `new` or `result` request whose Telegram send does not fail is
\* answered with success.
C10_LedgerAlwaysHasBets ==
    /\ fileExists => Has(file, "bets")
    /\ ( /\ req.ep = "bet"
         /\ Authorized(req.secret)
         /\ Truthy(req.payload)
         /\ Action(req.payload) \in {"new", "result"}
         /\ ~resp.sendFailed )
       => resp.status = 200

\* The bets of the stored ledger that the selection rule of the report
\* assigns to a month: match.date or createdAt starts with YYYY-MM.
InMonth(b, year, month) ==
    \/ InMonthByDate(b, MonthStr(year, month))
    \/ InMonthByCreation(b, MonthStr(year, month))

MonthBets(year, month) ==
    LET Sel(b) == InMonth(b, year, month)
    IN  SelectSeq(Get(Ledger, "bets", <<>>), Sel)

\* C7: whichever path a report takes (PDF with caption, or text fallback),
\* the bets it counts are those whose match.date or createdAt starts with
\* the month prefix.
C7_SamePathSelection ==
    report.path # "none" =>
        /\ report.msgBets = MonthBets(report.year, report.month)
        /\ report.path = "pdf" => report.pdfBets = MonthBets(report.year, report.month)

\* C8: over the bets a report counts, profit is grossReturn - staked +
\* voidStaked in the PDF, in its caption and in the text fallback, and so is
\* the ROI derived from it.
C8_OneProfitConvention ==
    report.path # "none" =>
        LET bets   == report.msgBets
            IsWon(b)  == ResultIs(b, "won")
            IsVoid(b) == ResultIs(b, "void")
            staked == SumStakes(bets)
            profit == SumPayouts(SelectSeq(bets, IsWon)) - staked
                      + SumStakes(SelectSeq(bets, IsVoid))
        IN  /\ report.msg.profit = profit
            /\ report.msg.roi = Roi(profit, staked)
            /\ report.path = "pdf" =>
                   /\ report.pdf.profit = report.msg.profit
                   /\ report.pdf.roi = report.msg.roi

\* C9: the PDF figures split the month's bets into won, lost, pending and
\* void; a bet with no result or an unknown one counts as pending, and the
\* four counts add up to the total.
C9_FourBucketsPartition ==
    report.path = "pdf" =>
        LET bets == report.pdfBets
            Other(b) == ~ResultIs(b, "won") /\ ~ResultIs(b, "lost") /\ ~ResultIs(b, "void")
        IN  /\ report.pdf.pend = Len(SelectSeq(bets, Other))
            /\ report.pdf.won + report.pdf.lost + report.pdf.pend + report.pdf.void
                   = report.pdf.total

====
